---- MODULE Spec2Model ----
(***************************************************************************)
(* Counter service (src/rust/src/bin/counter/main.rs): the place-order     *)
(* handler, the fulfillment-orders listing handler, the price lookup       *)
(* against the product service, and the store they share.                  *)
(*                                                                         *)
(* Each await point of a handler is one action.  The store is modelled     *)
(* with its connections: a write made through a transaction stays pending  *)
(* until that transaction commits, a write made through the pool           *)
(* (app.db_conn) is visible at once.  Every store call and every call to   *)
(* the product service may fail; .unwrap() turns a failure into a panic    *)
(* that ends the request.                                                  *)
(***************************************************************************)
EXTENDS Integers, Sequences, FiniteSets, TLC

(***************************************************************************)
(* Bounds of the model.                                                    *)
(***************************************************************************)
\* longest barista / kitchen list of a request
MaxItems == 2
\* longest array the product service answers with
MaxResp == 1

(***************************************************************************)
(* Option<T>: None is the empty tuple, Some(x) the one-element tuple.      *)
(***************************************************************************)
None == <<>>

Some(x) == <<x>>

unwrap_or(o, d) == IF o = None THEN d ELSE o[1]

\* i32::default()
unwrap_or_default(o) == unwrap_or(o, 0)

(***************************************************************************)
(* Strings are sequences of characters.                                    *)
(***************************************************************************)
DigitChars == <<"0", "1", "2", "3", "4", "5", "6", "7", "8", "9">>

RECURSIVE to_string(_)
\* i32::to_string
to_string(n) ==
    IF n < 0 THEN <<"-">> \o to_string(0 - n)
    ELSE IF n < 10 THEN <<DigitChars[n + 1]>>
    ELSE to_string(n \div 10) \o <<DigitChars[(n % 10) + 1]>>

RECURSIVE trim_start_matches(_, _)
trim_start_matches(s, c) ==
    IF s # <<>> /\ Head(s) = c THEN trim_start_matches(Tail(s), c) ELSE s

RECURSIVE fold_params(_, _)
\* the fold of params_process: acc is the accumulator, items what is left
fold_params(acc, items) ==
    IF items = <<>> THEN acc
    ELSE LET x == Head(items) IN
         fold_params(IF x.item_type # None
                        THEN acc \o <<",">> \o to_string(x.item_type[1])
                        ELSE <<>>,
                     Tail(items))

params_process(items_vec) == fold_params(<<>>, items_vec)

\* the last path segment of the url get_product_items requests
UrlParams(params) == trim_start_matches(params, ",")

(***************************************************************************)
(* Prices.  The product service answers in JSON; a price is a decimal      *)
(* literal, here a whole number of cents.  serde reads it into an f32      *)
(* (mant * 2^-exp, 24-bit mantissa, round to nearest even), and            *)
(* Decimal::from_f32_retain keeps every bit of that f32 (num / den).       *)
(***************************************************************************)
RECURSIVE Pow2(_)
Pow2(k) == IF k = 0 THEN 1 ELSE 2 * Pow2(k - 1)

\* 2^24: an f32 mantissa is below it
F32MantissaLimit == 16777216

RECURSIVE F32Scale(_, _)
\* the largest k with cents * 2^k / 100 < 2^24
F32Scale(cents, k) ==
    IF Pow2(k + 1) <= ((100 * F32MantissaLimit) - 1) \div cents
    THEN F32Scale(cents, k + 1) ELSE k

RECURSIVE F32Normalize(_, _)
F32Normalize(m, e) ==
    IF m = 0 THEN [mant |-> 0, exp |-> 0]
    ELSE IF e > 0 /\ m % 2 = 0 THEN F32Normalize(m \div 2, e - 1)
    ELSE [mant |-> m, exp |-> e]

\* the f32 nearest to cents / 100
F32FromJson(cents) ==
    IF cents = 0 THEN [mant |-> 0, exp |-> 0]
    ELSE LET k == F32Scale(cents, 0)
             n == cents * Pow2(k)
             q == n \div 100
             rem == n % 100
             m == IF 2 * rem > 100 \/ (2 * rem = 100 /\ q % 2 = 1)
                  THEN q + 1 ELSE q
         IN  F32Normalize(m, k)

\* the literal 0.0
F32Zero == [mant |-> 0, exp |-> 0]

\* Decimal::default()
DecimalZero == [num |-> 0, den |-> 1]

\* Decimal::from_f32_retain: every f32 of the model is finite and within
\* Decimal's range, so the result is Some, and it keeps the f32's bits
from_f32_retain(f) == Some([num |-> f.mant, den |-> Pow2(f.exp)])

(***************************************************************************)
(* Requests and the product service's answers.                             *)
(***************************************************************************)
Reqs == {1, 2}

Categories == {"barista", "kitchen"}

ItemTypeOpts == {None, Some(1)}

PlaceOrderItem == [item_type : ItemTypeOpts]

ItemVecs == UNION {[1..k -> PlaceOrderItem] : k \in 0..MaxItems}

ItemVecOpts == {None} \cup {Some(v) : v \in ItemVecs}

\* PlaceOrder; command_type, location and timestamp are never read
PlaceOrder ==
    [order_source : {None, Some(3)},
     loyalty_member_id : {None, Some(9)},
     barista_items : ItemVecOpts,
     kitchen_items : ItemVecOpts]

\* the requests of the two-placement specification
ConcPlaceOrder ==
    [order_source : {None},
     loyalty_member_id : {None},
     barista_items : {Some(<<[item_type |-> Some(1)]>>)},
     kitchen_items : {None, Some(<<>>), Some(<<[item_type |-> None]>>)}]

\* the entries the product service may answer with, prices in cents: 4.50
\* for item-type 0 and 3.99, which is no binary fraction, for item-type 1
JsonItemType ==
    {[itemType |-> 0, price |-> 450], [itemType |-> 1, price |-> 399]}

JsonBodies == UNION {[1..k -> JsonItemType] : k \in 0..MaxResp}

\* .json::<Vec<ItemTypeDto>>()
ItemTypeDto(j) == [item_type |-> j.itemType, price |-> F32FromJson(j.price)]

Deserialize(body) == [i \in 1..Len(body) |-> ItemTypeDto(body[i])]

\* the one answer of the product service in the two-placement specification
ConcJsonBodies == {<<[itemType |-> 1, price |-> 450]>>}

(***************************************************************************)
(* The ping/pong relay of the test-spin component: requests and bodies.    *)
(* A body is JSON text or not; JSON text may hold an "id", whose text is   *)
(* a Uuid or not.                                                          *)
(***************************************************************************)
PingReqs == {1, 2}

PUB_SUB_NAME == "pubsub"

UuidTexts == {"u1", "u2"}

IdTexts == UuidTexts \cup {"zz"}

PingBodies == [json : BOOLEAN, id : {None} \cup {Some(t) : t \in IdTexts}]

\* the values the variable dapr_url may have: not set, or the sidecar's url
DaprUrls == {None, Some("http://localhost:3500")}

\* the statuses with which the sidecar refuses a publish request
DaprRefusals == {404, 500}

(***************************************************************************)
(* State.                                                                  *)
(***************************************************************************)
VARIABLES
    orders,         \* rows of table orders every connection can read
    line_items,     \* rows of table line_items every connection can read
    txn,            \* per request: the state of the transaction it began
    txn_orders,     \* per request: order rows written through its transaction
    txn_lines,      \* per request: line rows written through its transaction
    next_id,        \* the next identifier the store hands out
    catalog,        \* the bodies the product service may answer with
    pc,             \* per request: the await point place_order_handler is at
    input,          \* per request: the deserialized PlaceOrder body
    result,         \* per request: Some(id of the saved order header)
    http_body,      \* per request and category: the body the lookup received
    product_items,  \* per request and category: the deserialized lookup answer
    idx,            \* per request: position of the for loop over the items
    requested,      \* per request and category: Some(url parameter) once asked
    log,            \* per request: the store and product-service calls issued
    failed_at,      \* per request: the await point a panic or timeout hit
    response,       \* per request: what the caller receives
    l_pc,           \* listing: the await point get_order_handler is at
    l_result,       \* listing: the order headers Order::find().all returned
    l_idx,          \* listing: position of the for loop over the headers
    temp,           \* listing: the OrderModels built so far
    l_ord,          \* listing: how the header query ended
    l_queries,      \* listing: the line-item queries issued
    l_failed,       \* listing: ids of the orders whose line query failed
    l_after,        \* listing: the requests that had ended when it queried
    l_response,     \* listing: what the caller receives
    dapr_url,       \* relay: the component's variable dapr_url, if it is set
    p_pc,           \* per ping: where post_ping_handler is
    p_body,         \* per ping: the body of the POST /pinged request
    p_out,          \* per ping: the HTTP requests the handler has sent
    p_result,       \* per ping: Some(what the send resolved to)
    topic_events,   \* relay: the events the sidecar has published
    p_response      \* per ping: what the caller receives

store_vars == <<orders, line_items, txn, txn_orders, txn_lines, next_id>>

req_vars == <<pc, input, catalog, result, http_body, product_items, idx,
              requested, log, failed_at, response>>

list_vars == <<l_pc, l_result, l_idx, temp, l_ord, l_queries, l_failed,
               l_after, l_response>>

ping_vars == <<dapr_url, p_pc, p_body, p_out, p_result, topic_events,
               p_response>>

vars == <<store_vars, req_vars, list_vars, ping_vars>>

\* where a request has ended
Ended == {"responded", "panicked", "cancelled", "off"}

\* the await points of place_order_handler
AwaitPoints == {"begin", "save_order", "barista_get", "barista_save",
                "kitchen_get", "kitchen_save", "commit"}

NoResponse == [status |-> 0, body |-> None]

InitCommon ==
    /\ orders = <<>>
    /\ line_items = <<>>
    /\ txn = [r \in Reqs |-> "none"]
    /\ txn_orders = [r \in Reqs |-> <<>>]
    /\ txn_lines = [r \in Reqs |-> <<>>]
    /\ next_id = 1
    /\ result = [r \in Reqs |-> None]
    /\ http_body = [r \in Reqs |-> [c \in Categories |-> <<>>]]
    /\ product_items = [r \in Reqs |-> [c \in Categories |-> <<>>]]
    /\ idx = [r \in Reqs |-> 0]
    /\ requested = [r \in Reqs |-> [c \in Categories |-> None]]
    /\ log = [r \in Reqs |-> <<>>]
    /\ failed_at = [r \in Reqs |-> "none"]
    /\ response = [r \in Reqs |-> NoResponse]
    /\ l_pc = "idle"
    /\ l_result = <<>>
    /\ l_idx = 0
    /\ temp = <<>>
    /\ l_ord = "none"
    /\ l_queries = 0
    /\ l_failed = {}
    /\ l_after = {}
    /\ l_response = NoResponse

\* no POST /pinged request
InitPingOff ==
    /\ dapr_url = None
    /\ p_pc = [k \in PingReqs |-> "off"]
    /\ p_body = [k \in PingReqs |-> [json |-> FALSE, id |-> None]]
    /\ p_out = [k \in PingReqs |-> <<>>]
    /\ p_result = [k \in PingReqs |-> None]
    /\ topic_events = <<>>
    /\ p_response = [k \in PingReqs |-> NoResponse]

\* one place-order request, any body
Init ==
    /\ InitCommon
    /\ InitPingOff
    /\ input \in {f \in [Reqs -> PlaceOrder] : f[2] = f[1]}
    /\ catalog = JsonBodies
    /\ pc = [r \in Reqs |-> IF r = 1 THEN "begin" ELSE "off"]

\* two concurrent place-order requests
InitConc ==
    /\ InitCommon
    /\ InitPingOff
    /\ input \in [Reqs -> ConcPlaceOrder]
    /\ catalog = ConcJsonBodies
    /\ pc = [r \in Reqs |-> "begin"]

\* two POST /pinged requests with any bodies, no place-order request
InitPing ==
    /\ InitCommon
    /\ input = [r \in Reqs |->
                  [order_source |-> None, loyalty_member_id |-> None,
                   barista_items |-> None, kitchen_items |-> None]]
    /\ catalog = ConcJsonBodies
    /\ pc = [r \in Reqs |-> "off"]
    /\ dapr_url \in DaprUrls
    /\ p_pc = [k \in PingReqs |-> "start"]
    /\ p_body \in [PingReqs -> PingBodies]
    /\ p_out = [k \in PingReqs |-> <<>>]
    /\ p_result = [k \in PingReqs |-> None]
    /\ topic_events = <<>>
    /\ p_response = [k \in PingReqs |-> NoResponse]

(***************************************************************************)
(* The store.                                                              *)
(***************************************************************************)
\* the connection place_order_handler hands to every .save(): app.db_conn
SaveConn(r) == [kind |-> "pool", owner |-> 0]

\* a transaction ends when it is dropped without commit: its writes are gone
Dropped(state) == IF state = "open" THEN "rolled_back" ELSE state

\* a header row that takes the input's order source, absent or not, for 0
OrderRow_SourceIgnored(id, in) ==
    [id |-> id,
     order_source |-> 0,
     loyalty_member_id |-> unwrap_or(in.loyalty_member_id, 0),
     order_status |-> 1]

\* the header row orders::ActiveModel{..}.save() inserts
OrderRow(id, in) ==
    [id |-> id,
     order_source |-> unwrap_or(in.order_source, 0),
     loyalty_member_id |-> unwrap_or(in.loyalty_member_id, 0),
     order_status |-> 1]

\* find without its predicate: the first entry, whatever its item-type
find_first(items, t) == IF items = <<>> THEN None ELSE Some(Head(items))

RECURSIVE find(_, _)
\* product_items.into_iter().find(|i| i.item_type == t)
find(items, t) ==
    IF items = <<>> THEN None
    ELSE IF Head(items).item_type = t THEN Some(Head(items))
    ELSE find(Tail(items), t)

\* the price of one item: the first match of the lookup, else 0.0
PriceOf(items, item) ==
    LET product_item_result == find(items, unwrap_or_default(item.item_type))
    IN  IF product_item_result # None
        THEN product_item_result[1].price ELSE F32Zero

\* a row saved without the category flag
LineItemRow_Unflagged(id, item, items, is_barista, order_id) ==
    [id |-> id,
     item_type |-> unwrap_or_default(item.item_type),
     name |-> to_string(unwrap_or_default(item.item_type)),
     price |-> unwrap_or(from_f32_retain(PriceOf(items, item)), DecimalZero),
     item_status |-> 0,
     is_barista_order |-> FALSE,
     order_id |-> order_id]

\* a row whose foreign key is the first header of the table, not result.id
LineItemRow_FirstOrder(id, item, items, is_barista, order_id) ==
    [id |-> id,
     item_type |-> unwrap_or_default(item.item_type),
     name |-> to_string(unwrap_or_default(item.item_type)),
     price |-> unwrap_or(from_f32_retain(PriceOf(items, item)), DecimalZero),
     item_status |-> 0,
     is_barista_order |-> is_barista,
     order_id |-> Some(1)]

\* the row line_items::ActiveModel{..}.save() inserts
LineItemRow(id, item, items, is_barista, order_id) ==
    [id |-> id,
     item_type |-> unwrap_or_default(item.item_type),
     name |-> to_string(unwrap_or_default(item.item_type)),
     price |-> unwrap_or(from_f32_retain(PriceOf(items, item)), DecimalZero),
     item_status |-> 0,
     is_barista_order |-> is_barista,
     order_id |-> order_id]

\* the item list of a category, as the request gave it
ItemsOpt(r, cat) ==
    IF cat = "barista" THEN input[r].barista_items ELSE input[r].kitchen_items

\* the await points of a category and the step that follows it
CatPc ==
    [barista |-> [unwrap |-> "barista_unwrap", get |-> "barista_get",
                  save |-> "barista_save", next |-> "kitchen_unwrap"],
     kitchen |-> [unwrap |-> "kitchen_unwrap", get |-> "kitchen_get",
                  save |-> "kitchen_save", next |-> "commit"]]

\* .unwrap() on an Err or a None: the handler unwinds, txn is dropped, the
\* connection is closed without a response
Panic(r) ==
    /\ pc' = [pc EXCEPT ![r] = "panicked"]
    /\ failed_at' = [failed_at EXCEPT ![r] = pc[r]]
    /\ txn' = [txn EXCEPT ![r] = Dropped(@)]
    /\ txn_orders' = [txn_orders EXCEPT ![r] = <<>>]
    /\ txn_lines' = [txn_lines EXCEPT ![r] = <<>>]
    /\ response' = [response EXCEPT ![r] = NoResponse]
    /\ UNCHANGED <<orders, line_items, next_id, input, catalog, result,
                   http_body, product_items, idx, list_vars, ping_vars>>

Logged(r, what) == log' = [log EXCEPT ![r] = Append(@, what)]

\* an insert that skips a header which repeats a stored one
InsertOrder_Idempotent(conn, row) ==
    /\ orders' =
          IF \E i \in 1..Len(orders) :
                /\ orders[i].order_source = row.order_source
                /\ orders[i].loyalty_member_id = row.loyalty_member_id
          THEN orders ELSE Append(orders, row)
    /\ UNCHANGED txn_orders

\* a row written through a transaction waits for its commit; a row written
\* through the pool is there for every reader at once
InsertOrder(conn, row) ==
    IF conn.kind = "txn"
    THEN /\ txn_orders' = [txn_orders EXCEPT ![conn.owner] = Append(@, row)]
         /\ UNCHANGED orders
    ELSE /\ orders' = Append(orders, row)
         /\ UNCHANGED txn_orders

\* an insert that re-prices the line items already stored
InsertLineItem_Reprice(conn, row) ==
    /\ line_items' =
          Append([i \in 1..Len(line_items) |->
                     [line_items[i] EXCEPT !.price = row.price]], row)
    /\ UNCHANGED txn_lines

InsertLineItem(conn, row) ==
    IF conn.kind = "txn"
    THEN /\ txn_lines' = [txn_lines EXCEPT ![conn.owner] = Append(@, row)]
         /\ UNCHANGED line_items
    ELSE /\ line_items' = Append(line_items, row)
         /\ UNCHANGED txn_lines

(***************************************************************************)
(* place_order_handler, one action per step.                               *)
(***************************************************************************)
\* let txn = app.db_conn.begin().await.unwrap();
Begin(r) ==
    /\ pc[r] = "begin"
    /\ Logged(r, "begin")
    /\ UNCHANGED requested
    /\ \/ /\ txn' = [txn EXCEPT ![r] = "open"]
          /\ pc' = [pc EXCEPT ![r] = "save_order"]
          /\ UNCHANGED <<orders, line_items, txn_orders, txn_lines, next_id,
                         input, catalog, result, http_body, product_items,
                         idx, failed_at, response, list_vars, ping_vars>>
       \/ Panic(r)

\* orders::ActiveModel {..}.save(&app.db_conn).await.unwrap()
SaveOrder(r) ==
    /\ pc[r] = "save_order"
    /\ Logged(r, "insert_order")
    /\ UNCHANGED requested
    /\ \/ /\ InsertOrder(SaveConn(r), OrderRow(next_id, input[r]))
          /\ next_id' = next_id + 1
          /\ result' = [result EXCEPT ![r] = Some(next_id)]
          /\ pc' = [pc EXCEPT ![r] = "barista_unwrap"]
          /\ UNCHANGED <<line_items, txn, txn_lines, input, catalog,
                         http_body, product_items, idx, failed_at, response,
                         list_vars, ping_vars>>
       \/ Panic(r)

\* input.<cat>_items.unwrap() and the test of the list's length
Unwrap(r, cat) ==
    /\ pc[r] = CatPc[cat].unwrap
    /\ UNCHANGED <<log, requested>>
    /\ IF ItemsOpt(r, cat) = None
       THEN Panic(r)
       ELSE /\ pc' = [pc EXCEPT ![r] =
                        IF Len(ItemsOpt(r, cat)[1]) > 0
                        THEN CatPc[cat].get ELSE CatPc[cat].next]
            /\ UNCHANGED <<store_vars, input, catalog, result, http_body,
                           product_items, idx, failed_at, response,
                           list_vars, ping_vars>>

\* get_product_items(&app.config.product_url, params_process(..)).await
GetProductItems(r, cat) ==
    /\ pc[r] = CatPc[cat].get
    /\ Logged(r, CatPc[cat].get)
    /\ requested' = [requested EXCEPT ![r][cat] =
                       Some(UrlParams(params_process(ItemsOpt(r, cat)[1])))]
    /\ \/ \E body \in catalog :
             /\ http_body' = [http_body EXCEPT ![r][cat] = body]
             /\ product_items' =
                   [product_items EXCEPT ![r][cat] = Deserialize(body)]
             /\ idx' = [idx EXCEPT ![r] = 1]
             /\ pc' = [pc EXCEPT ![r] = CatPc[cat].save]
             /\ UNCHANGED <<store_vars, input, catalog, result, failed_at,
                            response, list_vars, ping_vars>>
       \/ Panic(r)

\* the lookup moved inside the for loop: one resolver call per item
AfterSave_PerItemLookup(i, n, cat) ==
    IF i < n THEN CatPc[cat].get ELSE CatPc[cat].next

\* where the for loop goes after saving item i of n
AfterSave(i, n, cat) == IF i < n THEN CatPc[cat].save ELSE CatPc[cat].next

\* line_items::ActiveModel {..}.save(&app.db_conn).await.unwrap()
SaveLineItem(r, cat) ==
    /\ pc[r] = CatPc[cat].save
    /\ Logged(r, "insert_line")
    /\ UNCHANGED requested
    /\ \/ LET items_vec == ItemsOpt(r, cat)[1] IN
          /\ InsertLineItem(SaveConn(r),
                            LineItemRow(next_id, items_vec[idx[r]],
                                        product_items[r][cat], cat = "barista",
                                        result[r]))
          /\ next_id' = next_id + 1
          /\ idx' = [idx EXCEPT ![r] = @ + 1]
          /\ pc' = [pc EXCEPT ![r] = AfterSave(idx[r], Len(items_vec), cat)]
          /\ UNCHANGED <<orders, txn, txn_orders, input, catalog, result,
                         http_body, product_items, failed_at, response,
                         list_vars, ping_vars>>
       \/ Panic(r)

\* txn.commit().await.unwrap(); result.id.unwrap().to_string()
Commit(r) ==
    /\ pc[r] = "commit"
    /\ Logged(r, "commit")
    /\ UNCHANGED requested
    /\ \/ /\ txn' = [txn EXCEPT ![r] = "committed"]
          /\ orders' = orders \o txn_orders[r]
          /\ line_items' = line_items \o txn_lines[r]
          /\ txn_orders' = [txn_orders EXCEPT ![r] = <<>>]
          /\ txn_lines' = [txn_lines EXCEPT ![r] = <<>>]
          /\ response' = [response EXCEPT ![r] =
                            [status |-> 200, body |-> Some(result[r][1])]]
          /\ pc' = [pc EXCEPT ![r] = "responded"]
          /\ UNCHANGED <<next_id, input, catalog, result, http_body,
                         product_items, idx, failed_at, list_vars, ping_vars>>
       \/ Panic(r)

\* .timeout(Duration::from_secs(10)): the handler's future is dropped at the
\* await point it is suspended at, and the caller gets 408
Timeout(r) ==
    /\ pc[r] \in AwaitPoints
    /\ pc' = [pc EXCEPT ![r] = "cancelled"]
    /\ failed_at' = [failed_at EXCEPT ![r] = pc[r]]
    /\ txn' = [txn EXCEPT ![r] = Dropped(@)]
    /\ txn_orders' = [txn_orders EXCEPT ![r] = <<>>]
    /\ txn_lines' = [txn_lines EXCEPT ![r] = <<>>]
    /\ response' = [response EXCEPT ![r] = [status |-> 408, body |-> None]]
    /\ UNCHANGED <<orders, line_items, next_id, input, catalog, result,
                   http_body, product_items, idx, requested, log, list_vars,
                   ping_vars>>

(***************************************************************************)
(* get_order_handler, one action per query.                                *)
(***************************************************************************)
\* Result<Vec<_>, DbErr>
Ok(v) == [ok |-> TRUE, v |-> v]

Err == [ok |-> FALSE, v |-> <<>>]

\* Result::unwrap_or_default on a Vec
unwrap_or_default_vec(res) == IF res.ok THEN res.v ELSE <<>>

\* the query without its foreign-key filter: every line item of the table
find_all_lines(order, rows) == rows

\* order.find_related(line_items::Entity): the rows whose order_id is order.id
find_related(order, rows) ==
    SelectSeq(rows, LAMBDA line_item : line_item.order_id = Some(order.id))

OrderLineModel(line_item) ==
    [id |-> line_item.id,
     is_barista_order |-> line_item.is_barista_order,
     item_status |-> line_item.item_status,
     item_type |-> line_item.item_type,
     name |-> line_item.name,
     order_id |-> line_item.order_id,
     price |-> line_item.price]

OrderModel(order, lines) ==
    [id |-> order.id,
     loyalty_member_id |-> order.loyalty_member_id,
     order_source |-> order.order_source,
     order_status |-> order.order_status,
     order_lines |-> [i \in 1..Len(lines) |-> OrderLineModel(lines[i])]]

\* an Err arm that reports the store failure to the caller
ErrArm_ServerError == [status |-> 500, body |-> <<>>]

\* Err(_) => (StatusCode::OK, Json(vec![]))
ErrArm == [status |-> 200, body |-> <<>>]

\* let ord = Order::find().all(&app.db_conn).await; and both match arms up
\* to the first line-item query
FindOrders ==
    /\ l_pc = "idle"
    /\ l_after' = {r \in Reqs : pc[r] \in Ended \ {"off"}}
    /\ temp' = <<>>
    /\ l_failed' = {}
    /\ l_queries' = 0
    /\ \/ /\ l_ord' = "ok"
          /\ l_result' = orders
          /\ IF orders = <<>>
             THEN /\ l_pc' = "done"
                  /\ l_idx' = 0
                  /\ l_response' = [status |-> 200, body |-> <<>>]
             ELSE /\ l_pc' = "find_related"
                  /\ l_idx' = 1
                  /\ l_response' = NoResponse
       \/ /\ l_ord' = "err"
          /\ l_result' = <<>>
          /\ l_pc' = "done"
          /\ l_idx' = 0
          /\ l_response' = ErrArm
    /\ UNCHANGED <<ping_vars, store_vars, req_vars>>

\* one turn of the for loop: the order's line-item query and temp.push
FindRelated ==
    /\ l_pc = "find_related"
    /\ \E ok \in BOOLEAN :
          LET order == l_result[l_idx]
              res == IF ok THEN Ok(find_related(order, line_items)) ELSE Err
              order_model == OrderModel(order, unwrap_or_default_vec(res))
          IN  /\ temp' = Append(temp, order_model)
              /\ l_failed' = IF ok THEN l_failed ELSE l_failed \cup {order.id}
              /\ l_queries' = l_queries + 1
              /\ IF l_idx < Len(l_result)
                 THEN /\ l_idx' = l_idx + 1
                      /\ l_pc' = "find_related"
                      /\ l_response' = NoResponse
                 ELSE /\ l_idx' = l_idx
                      /\ l_pc' = "done"
                      /\ l_response' =
                            [status |-> 200, body |-> Append(temp, order_model)]
    /\ UNCHANGED <<ping_vars, store_vars, req_vars, l_result, l_ord, l_after>>

\* .timeout(Duration::from_secs(10)) on the listing: the handler is dropped
\* at a line-item query and the caller gets 408 (a listing dropped at its
\* header query has read nothing)
ListTimeout ==
    /\ l_pc = "find_related"
    /\ l_pc' = "cancelled"
    /\ l_response' = [status |-> 408, body |-> <<>>]
    /\ UNCHANGED <<ping_vars, store_vars, req_vars, l_result, l_idx, temp,
                   l_ord, l_queries, l_failed, l_after>>

\* the next GET /v1/api/fulfillment-orders
ListAgain ==
    /\ l_pc \in {"done", "cancelled"}
    /\ l_pc' = "idle"
    /\ l_result' = <<>>
    /\ l_idx' = 0
    /\ temp' = <<>>
    /\ l_ord' = "none"
    /\ l_queries' = 0
    /\ l_failed' = {}
    /\ l_after' = {}
    /\ l_response' = NoResponse
    /\ UNCHANGED <<ping_vars, store_vars, req_vars>>

(***************************************************************************)
(* post_ping_handler and pub_ponged of the test-spin component.            *)
(***************************************************************************)
\* what spin_sdk::http::send resolves to
SendOk(status) == [ok |-> TRUE, status |-> status]

SendErr == [ok |-> FALSE, status |-> 0]

\* Pinged::try_from: serde_json::from_slice::<Pinged>, the id a Uuid
try_from(value) ==
    IF value.json /\ value.id # None /\ value.id[1] \in UuidTexts
    THEN Ok([id |-> value.id[1]])
    ELSE Err

\* json!(e).to_string()
to_json(e) == [json |-> TRUE, id |-> Some(e.id)]

\* the url with the pubsub's name and the topic in each other's place
PublishUrl_TopicFirst(url, pubsub_name, topic) ==
    <<url, "v1.0", "publish", topic, pubsub_name>>

\* format!("{}/v1.0/publish/{}/{}", dapr_url, pubsub_name, topic)
PublishUrl(url, pubsub_name, topic) ==
    <<url, "v1.0", "publish", pubsub_name, topic>>

\* the request pub_ponged builds
PublishRequest(url, pubsub_name, topic, e) ==
    [method |-> "POST",
     url |-> PublishUrl(url, pubsub_name, topic),
     body |-> to_json(e)]

\* post_ping_handler up to the await of pub_ponged's send: the variable
\* dapr_url (an Err is the handler's result: 500), Pinged::try_from (400),
\* and the publish request handed to the host
PostPing(k) ==
    /\ p_pc[k] = "start"
    /\ IF dapr_url = None
       THEN /\ p_response' = [p_response EXCEPT ![k] =
                                [status |-> 500, body |-> None]]
            /\ p_pc' = [p_pc EXCEPT ![k] = "responded"]
            /\ UNCHANGED p_out
       ELSE LET res == try_from(p_body[k]) IN
            IF ~res.ok
            THEN /\ p_response' = [p_response EXCEPT ![k] =
                                     [status |-> 400,
                                      body |-> Some("Something wrong.")]]
                 /\ p_pc' = [p_pc EXCEPT ![k] = "responded"]
                 /\ UNCHANGED p_out
            ELSE /\ p_out' = [p_out EXCEPT ![k] =
                       Append(@, PublishRequest(dapr_url[1], PUB_SUB_NAME,
                                                "ponged",
                                                [id |-> res.v.id]))]
                 /\ p_pc' = [p_pc EXCEPT ![k] = "await_send"]
                 /\ UNCHANGED p_response
    /\ UNCHANGED <<store_vars, req_vars, list_vars, dapr_url, p_body,
                   p_result, topic_events>>

\* the host carries out the send: the sidecar publishes the event on the
\* pubsub and topic the url names and answers 204, or refuses with an
\* error status, or cannot be reached
Sidecar(k) ==
    /\ p_pc[k] = "await_send"
    /\ p_result[k] = None
    /\ LET request == p_out[k][Len(p_out[k])] IN
       \/ /\ topic_events' =
                Append(topic_events,
                       [pubsub |-> request.url[4], topic |-> request.url[5],
                        data |-> request.body, by |-> k])
          /\ p_result' = [p_result EXCEPT ![k] = Some(SendOk(204))]
       \/ /\ \E status \in DaprRefusals :
                p_result' = [p_result EXCEPT ![k] = Some(SendOk(status))]
          /\ UNCHANGED topic_events
       \/ /\ p_result' = [p_result EXCEPT ![k] = Some(SendErr)]
          /\ UNCHANGED topic_events
    /\ UNCHANGED <<store_vars, req_vars, list_vars, dapr_url, p_pc, p_body,
                   p_out, p_response>>

\* result.await.unwrap(): an Err traps the component (the host answers
\* 500); any Ok, whatever its status, returns and the handler answers 200
PubPongedReturn(k) ==
    /\ p_pc[k] = "await_send"
    /\ p_result[k] # None
    /\ IF p_result[k][1].ok
       THEN /\ p_pc' = [p_pc EXCEPT ![k] = "responded"]
            /\ p_response' = [p_response EXCEPT ![k] =
                                [status |-> 200, body |-> Some("")]]
       ELSE /\ p_pc' = [p_pc EXCEPT ![k] = "trapped"]
            /\ p_response' = [p_response EXCEPT ![k] =
                                [status |-> 500, body |-> None]]
    /\ UNCHANGED <<store_vars, req_vars, list_vars, dapr_url, p_body, p_out,
                   p_result, topic_events>>

(***************************************************************************)
(* Specifications.                                                         *)
(***************************************************************************)
Next ==
    \/ \E r \in Reqs : Begin(r)
    \/ \E r \in Reqs : SaveOrder(r)
    \/ \E r \in Reqs, cat \in Categories : Unwrap(r, cat)
    \/ \E r \in Reqs, cat \in Categories : GetProductItems(r, cat)
    \/ \E r \in Reqs, cat \in Categories : SaveLineItem(r, cat)
    \/ \E r \in Reqs : Commit(r)
    \/ \E r \in Reqs : Timeout(r)
    \/ FindOrders
    \/ FindRelated
    \/ ListTimeout
    \/ ListAgain

\* place_order_handler alone
NextPlace ==
    \/ \E r \in Reqs : Begin(r)
    \/ \E r \in Reqs : SaveOrder(r)
    \/ \E r \in Reqs, cat \in Categories : Unwrap(r, cat)
    \/ \E r \in Reqs, cat \in Categories : GetProductItems(r, cat)
    \/ \E r \in Reqs, cat \in Categories : SaveLineItem(r, cat)
    \/ \E r \in Reqs : Commit(r)
    \/ \E r \in Reqs : Timeout(r)

\* post_ping_handler alone
NextPing ==
    \/ \E k \in PingReqs : PostPing(k)
    \/ \E k \in PingReqs : Sidecar(k)
    \/ \E k \in PingReqs : PubPongedReturn(k)

\* one place-order request with any body, and listings
Spec == Init /\ [][Next]_vars

\* one place-order request with any body, no listing
SpecPlace == Init /\ [][NextPlace]_vars

\* two concurrent place-order requests, and listings
SpecConc == InitConc /\ [][Next]_vars

\* two POST /pinged requests with any bodies
SpecPing == InitPing /\ [][NextPing]_vars

(***************************************************************************)
(* What the properties below speak of.                                     *)
(***************************************************************************)
\* the number of items a request carries in a category (0 when absent)
NItems(r, cat) ==
    IF ItemsOpt(r, cat) = None THEN 0 ELSE Len(ItemsOpt(r, cat)[1])

\* the item-type code of item i of a category, as it is persisted
TypeOfItem(r, cat, i) == unwrap_or_default(ItemsOpt(r, cat)[1][i].item_type)

\* the rows a request has made visible to every reader
HeaderVisible(r) ==
    result[r] # None /\ \E i \in 1..Len(orders) : orders[i].id = result[r][1]

LinesVisible(r) ==
    IF result[r] = None THEN <<>>
    ELSE SelectSeq(line_items, LAMBDA li : li.order_id = result[r])

CatLinesVisible(r, cat) ==
    SelectSeq(LinesVisible(r),
              LAMBDA li : li.is_barista_order = (cat = "barista"))

\* the resolver calls a request has issued for a category
Calls(r, cat) ==
    Cardinality({i \in 1..Len(log[r]) : log[r][i] = CatPc[cat].get})

\* a finished listing whose header query succeeded after request r had ended
ListedAfter(r) == l_pc = "done" /\ l_ord = "ok" /\ r \in l_after

\* the entries of the listing's answer that show the order of request r
EntriesOf(r) ==
    {i \in 1..Len(l_response.body) :
        result[r] # None /\ l_response.body[i].id = result[r][1]}

\* a Decimal is worth exactly that many cents
IsCents(d, cents) == d.num * 100 = cents * d.den

\* the first entry of a lookup answer for an item-type, 0 when there is none
FirstMatch(items, t) ==
    IF \E i \in 1..Len(items) : items[i].item_type = t
    THEN CHOOSE i \in 1..Len(items) :
            /\ items[i].item_type = t
            /\ \A j \in 1..(i - 1) : items[j].item_type # t
    ELSE 0

(***************************************************************************)
(* C1.  Atomicity on failure: when a place-order request fails at a        *)
(* line-item insert after its header insert succeeded, no later listing    *)
(* shows that order's header or any of its line items.                     *)
(***************************************************************************)
C1_AtomicOnLineFailure ==
    \A r \in Reqs :
        (/\ pc[r] = "panicked"
         /\ failed_at[r] \in {"barista_save", "kitchen_save"}
         /\ ListedAfter(r))
        => /\ EntriesOf(r) = {}
           /\ \A i \in 1..Len(l_response.body) :
                 \A j \in 1..Len(l_response.body[i].order_lines) :
                    l_response.body[i].order_lines[j].order_id # result[r]

(***************************************************************************)
(* C2.  Isolation from readers: a listing that runs while a place-order    *)
(* request is in flight shows that order with all of its line items or     *)
(* not at all.  (Stated for listings none of whose queries failed.)        *)
(***************************************************************************)
C2_NoPartialOrderListed ==
    \A r \in Reqs :
        (/\ pc[r] \notin Ended
         /\ l_pc = "done" /\ l_ord = "ok" /\ l_failed = {})
        => \A i \in EntriesOf(r) :
              Len(l_response.body[i].order_lines)
                 = NItems(r, "barista") + NItems(r, "kitchen")

(***************************************************************************)
(* C3.  Empty order rejection: a request whose barista and kitchen lists   *)
(* are each empty or absent is answered with a validation error (4xx),     *)
(* and issues no resolver call and no store call.                          *)
(***************************************************************************)
C3_EmptyOrderRejected ==
    \A r \in Reqs :
        (/\ pc[r] # "off"
         /\ NItems(r, "barista") = 0
         /\ NItems(r, "kitchen") = 0)
        => /\ log[r] = <<>>
           /\ pc[r] \in Ended =>
                 response[r].status >= 400 /\ response[r].status <= 499

(***************************************************************************)
(* C4.  Catalog failure leaves no trace: when a price lookup fails, no     *)
(* transaction has been opened, and no header or line item of the request  *)
(* is persisted or shown by a later listing.                               *)
(***************************************************************************)
C4_CatalogFailureNoTrace ==
    \A r \in Reqs :
        (/\ pc[r] = "panicked"
         /\ failed_at[r] \in {"barista_get", "kitchen_get"})
        => /\ txn[r] = "none"
           /\ ~HeaderVisible(r)
           /\ LinesVisible(r) = <<>>
           /\ ListedAfter(r) => EntriesOf(r) = {}

(***************************************************************************)
(* C5.  Batching: a placement issues at most one resolver call per         *)
(* category and none for a category whose list is empty; a placement with  *)
(* N > 0 barista and M > 0 kitchen items that runs to its answer has       *)
(* issued exactly two, whatever N and M are.                               *)
(***************************************************************************)
C5_Batching ==
    \A r \in Reqs :
        /\ \A cat \in Categories :
              /\ Calls(r, cat) <= 1
              /\ NItems(r, cat) = 0 => Calls(r, cat) = 0
        /\ (/\ pc[r] = "responded"
            /\ NItems(r, "barista") > 0
            /\ NItems(r, "kitchen") > 0)
           => Calls(r, "barista") + Calls(r, "kitchen") = 2
        /\ pc[r] = "responded" =>
              \A cat \in Categories :
                 NItems(r, cat) > 0 => Calls(r, cat) = 1

\* a placement of two barista and two kitchen items has answered after
\* two resolver calls and four line-item inserts
C5_Witness ==
    \E r \in Reqs :
        /\ pc[r] = "responded"
        /\ NItems(r, "barista") >= 2
        /\ NItems(r, "kitchen") >= 2
        /\ Calls(r, "barista") + Calls(r, "kitchen") = 2
        /\ Len(LinesVisible(r)) = NItems(r, "barista") + NItems(r, "kitchen")

(***************************************************************************)
(* C6.  Price default: a persisted line item whose item-type the lookup    *)
(* answer lacks has price exactly zero; when the answer holds the          *)
(* item-type, the persisted price is the price the catalog returned.       *)
(***************************************************************************)
C6_PriceDefault ==
    \A r \in Reqs, cat \in Categories :
        LET rows == CatLinesVisible(r, cat) IN
        \A i \in 1..Len(rows) :
            LET k == FirstMatch(product_items[r][cat], rows[i].item_type) IN
            IF k = 0 THEN IsCents(rows[i].price, 0)
            ELSE IsCents(rows[i].price, http_body[r][cat][k].price)

(***************************************************************************)
(* C7.  Round trip: a request whose only content is one barista item of    *)
(* type t (no kitchen list), priced p by the catalog and hit by no store   *)
(* or catalog fault, is answered 200 with the order's identifier, and a    *)
(* later listing shows that order with the single line item                *)
(* (itemType t, price p, isBaristaOrder true).                             *)
(***************************************************************************)
C7_RoundTrip ==
    \A r \in Reqs :
        LET b == input[r].barista_items
            t == b[1][1].item_type[1]
            k == FirstMatch(product_items[r]["barista"], t)
        IN  (/\ b # None /\ Len(b[1]) = 1 /\ b[1][1].item_type # None
             /\ input[r].kitchen_items = None
             /\ pc[r] \in {"responded", "panicked"}
             /\ failed_at[r] \notin AwaitPoints
             /\ k # 0)
            => /\ response[r].status = 200
               /\ result[r] # None
               /\ response[r].body = result[r]
               /\ (ListedAfter(r) /\ l_failed = {}) =>
                     \E i \in EntriesOf(r) :
                        LET lines == l_response.body[i].order_lines IN
                        /\ Len(lines) = 1
                        /\ lines[1].item_type = t
                        /\ lines[1].is_barista_order
                        /\ IsCents(lines[1].price,
                                   http_body[r]["barista"][k].price)

(***************************************************************************)
(* C8.  Degraded read: a listing whose header query succeeded answers 200  *)
(* with one entry per header, in order, whatever line-item queries fail;   *)
(* the entry of an order whose line query failed has no line items, every  *)
(* other entry holds the order's line items as they are stored: all of     *)
(* them when the order's request had ended before the listing began.       *)
(***************************************************************************)
C8_DegradedRead ==
    (l_pc = "done" /\ l_ord = "ok") =>
        LET body == l_response.body IN
        /\ l_response.status = 200
        /\ Len(body) = Len(l_result)
        /\ \A i \in 1..Len(body) : body[i].id = l_result[i].id
        /\ \A r \in l_after : HeaderVisible(r) => EntriesOf(r) # {}
        /\ \A r \in Reqs : \A i \in EntriesOf(r) :
              LET lines == body[i].order_lines IN
              IF body[i].id \in l_failed THEN lines = <<>>
              ELSE /\ Len(lines) <= Len(LinesVisible(r))
                   /\ \A j \in 1..Len(lines) : lines[j] = LinesVisible(r)[j]
                   /\ r \in l_after => Len(lines) = Len(LinesVisible(r))

\* a listing of two orders: the line query of one failed and its entry is
\* empty although the order has line items, the other entry has its own
C8_Witness ==
    /\ l_pc = "done" /\ l_ord = "ok"
    /\ Len(l_response.body) = 2
    /\ \E r1, r2 \in l_after :
          /\ r1 # r2
          /\ result[r1] # None /\ result[r1][1] \in l_failed
          /\ result[r2] # None /\ result[r2][1] \notin l_failed
          /\ LinesVisible(r1) # <<>>
          /\ \E i \in EntriesOf(r1) : l_response.body[i].order_lines = <<>>
          /\ \E i \in EntriesOf(r2) :
                /\ l_response.body[i].order_lines = LinesVisible(r2)
                /\ Len(LinesVisible(r2)) >= 1

(***************************************************************************)
(* C9.  Duplicate item types: the items of a category processed so far     *)
(* have one persisted line item each, so an item-type given k times has    *)
(* k line items; all identifiers differ, and every line item carries the   *)
(* price the lookup resolved for its type (first match, else zero).        *)
(***************************************************************************)
C9_DuplicateItemTypes ==
    /\ \A i, j \in 1..Len(line_items) :
          i # j => line_items[i].id # line_items[j].id
    /\ \A r \in Reqs, cat \in Categories :
          LET rows == CatLinesVisible(r, cat)
              n == Len(rows)
          IN  /\ n <= NItems(r, cat)
              /\ \A t \in {0, 1} :
                    Cardinality({i \in 1..n : rows[i].item_type = t})
                       = Cardinality({i \in 1..n : TypeOfItem(r, cat, i) = t})
              /\ \A i \in 1..n :
                    LET k == FirstMatch(product_items[r][cat],
                                        rows[i].item_type)
                        resolved == IF k = 0 THEN F32Zero
                                    ELSE product_items[r][cat][k].price
                    IN  rows[i].price = from_f32_retain(resolved)[1]
              /\ pc[r] = "responded" => n = NItems(r, cat)

\* barista items [{itemType:1},{itemType:1}] answered: two line items of
\* type 1 with different identifiers and the same resolved, non-zero price
C9_Witness ==
    \E r \in Reqs :
        LET rows == CatLinesVisible(r, "barista") IN
        /\ pc[r] = "responded"
        /\ input[r].barista_items =
              Some(<<[item_type |-> Some(1)], [item_type |-> Some(1)]>>)
        /\ Len(rows) = 2
        /\ rows[1].id # rows[2].id
        /\ rows[1].item_type = 1 /\ rows[2].item_type = 1
        /\ rows[1].price = rows[2].price
        /\ rows[1].price.num # 0

(***************************************************************************)
(* C10.  Cancellation: a place-order request cancelled by the request      *)
(* timeout before its transaction commits leaves no order header and no    *)
(* line item persisted or visible to a later listing.                      *)
(***************************************************************************)
C10_CancelLeavesNothing ==
    \A r \in Reqs :
        pc[r] = "cancelled"
        => /\ ~HeaderVisible(r)
           /\ LinesVisible(r) = <<>>
           /\ ListedAfter(r) => EntriesOf(r) = {}

(***************************************************************************)
(* C11.  Listing on store failure: a listing whose header query failed     *)
(* answers 200 with an empty array, whatever the store holds, and runs no  *)
(* line-item query: it is never at the line-item loop.                     *)
(***************************************************************************)
C11_ListingOnStoreFailure ==
    l_ord = "err" =>
        /\ l_pc = "done"
        /\ l_response = [status |-> 200, body |-> <<>>]
        /\ l_queries = 0
        /\ temp = <<>>

\* the header query failed while the store held an order with a line item
C11_Witness ==
    /\ l_ord = "err" /\ l_pc = "done"
    /\ orders # <<>> /\ line_items # <<>>
    /\ l_response.status = 200 /\ l_response.body = <<>>

(***************************************************************************)
(* C12.  Resolution precedes the transaction: whatever a placement did     *)
(* before a resolver call was another resolver call, so that no begin of   *)
(* the transaction and no insert of a header or line item comes before a   *)
(* resolver call, and no resolver call falls between two inserts.          *)
(***************************************************************************)
C12_ResolutionPrecedesTransaction ==
    \A r \in Reqs :
        \A i, j \in 1..Len(log[r]) :
            (i < j /\ log[r][j] \in {"barista_get", "kitchen_get"})
            => log[r][i] \in {"barista_get", "kitchen_get"}

RECURSIVE Segments(_, _)
\* the comma-separated codes of a url's last path segment; cur is the code
\* being read
Segments(s, cur) ==
    IF s = <<>> THEN {cur}
    ELSE IF Head(s) = "," THEN {cur} \cup Segments(Tail(s), <<>>)
    ELSE Segments(Tail(s), Append(cur, Head(s)))

(***************************************************************************)
(* C13.  Complete batch: the resolver call issued for a category carries   *)
(* the item-type code of every item of the category's list that has one,   *)
(* also when another item of the list has no itemType.                     *)
(***************************************************************************)
C13_CompleteBatch ==
    \A r \in Reqs, cat \in Categories :
        requested[r][cat] # None =>
            \A i \in 1..NItems(r, cat) :
                LET item == ItemsOpt(r, cat)[1][i] IN
                item.item_type # None =>
                    to_string(item.item_type[1])
                        \in Segments(requested[r][cat][1], <<>>)

\* the headers of the table a line item's foreign key points at
HeadersOf(line_item, rows) ==
    {j \in 1..Len(rows) : Some(rows[j].id) = line_item.order_id}

(***************************************************************************)
(* C14.  Ownership: under any interleaving of placements, every persisted  *)
(* line item references exactly one persisted header; a step that inserts  *)
(* a line item is taken by a request whose header is already persisted,    *)
(* and the new line item references that request's header.                 *)
(***************************************************************************)
C14_Ownership ==
    [][/\ \A i \in 1..Len(line_items') :
             Cardinality(HeadersOf(line_items'[i], orders')) = 1
       /\ Len(line_items') # Len(line_items) =>
             /\ Len(line_items') = Len(line_items) + 1
             /\ \E r \in Reqs :
                   /\ pc[r] \in {"barista_save", "kitchen_save"}
                   /\ idx'[r] = idx[r] + 1
                   /\ HeaderVisible(r)
                   /\ line_items'[Len(line_items')].order_id = result[r]
                   /\ \A q \in Reqs \ {r} : idx'[q] = idx[q]
      ]_vars

\* two placements interleaved their inserts: the line items of one order
\* lie on both sides of a line item of the other
C14_Witness ==
    /\ \A r \in Reqs : pc[r] = "responded"
    /\ result[1] # result[2]
    /\ \E i, j, k \in 1..Len(line_items) :
          /\ i < j /\ j < k
          /\ line_items[i].order_id = line_items[k].order_id
          /\ line_items[j].order_id # line_items[i].order_id

\* the price a category's lookup answer resolves for an item-type: the
\* first entry of that type, zero when there is none
Resolved(r, cat, t) ==
    LET k == FirstMatch(product_items[r][cat], t) IN
    IF k = 0 THEN F32Zero ELSE product_items[r][cat][k].price

(***************************************************************************)
(* C15.  Category mapping: once a placement of N barista and M kitchen     *)
(* items has answered, its order has N + M line items; N are flagged       *)
(* barista, one per barista item in order, priced from the barista         *)
(* lookup's answer, M are not flagged, one per kitchen item, priced from   *)
(* the kitchen lookup's answer; each has status 0 and the decimal text of  *)
(* its item-type as name.                                                  *)
(***************************************************************************)
C15_CategoryMapping ==
    \A r \in Reqs :
        pc[r] = "responded" =>
            /\ Len(LinesVisible(r))
                  = NItems(r, "barista") + NItems(r, "kitchen")
            /\ \A cat \in Categories :
                  LET rows == CatLinesVisible(r, cat) IN
                  /\ Len(rows) = NItems(r, cat)
                  /\ \A i \in 1..Len(rows) :
                        /\ rows[i].item_type = TypeOfItem(r, cat, i)
                        /\ rows[i].price =
                              from_f32_retain(
                                 Resolved(r, cat, rows[i].item_type))[1]
                        /\ rows[i].item_status = 0
                        /\ rows[i].name = to_string(rows[i].item_type)
                        /\ rows[i].order_id = result[r]

\* a placement with barista and kitchen items of one type has answered;
\* the two lookups answered differently, and the barista line item has the
\* barista answer's price, the kitchen line item the kitchen answer's (zero,
\* the kitchen answer lacking the type)
C15_Witness ==
    \E r \in Reqs :
        LET b == CatLinesVisible(r, "barista")
            k == CatLinesVisible(r, "kitchen")
        IN  /\ pc[r] = "responded"
            /\ Len(b) >= 1 /\ Len(k) >= 1
            /\ b[1].item_type = k[1].item_type
            /\ product_items[r]["barista"] # product_items[r]["kitchen"]
            /\ b[1].price.num # 0 /\ k[1].price.num = 0

\* seq is the beginning of seq2, row for row
IsPrefix(seq, seq2) ==
    /\ Len(seq) <= Len(seq2)
    /\ \A i \in 1..Len(seq) : seq2[i] = seq[i]

(***************************************************************************)
(* C16.  Reads never mutate, rows are write-once: a step of a listing      *)
(* leaves the persisted orders and line items as they are, and every step  *)
(* of a placement or a listing leaves every persisted header and line      *)
(* item (price, item-type, category flag, owning order) unchanged.         *)
(***************************************************************************)
C16_ReadsNeverMutate ==
    [][/\ list_vars' # list_vars =>
             /\ orders' = orders /\ line_items' = line_items
             /\ txn_orders' = txn_orders /\ txn_lines' = txn_lines
       /\ IsPrefix(orders, orders')
       /\ IsPrefix(line_items, line_items')
      ]_vars

\* a listing has read two orders and their line items, of different prices,
\* stored by two finished placements
C16_Witness ==
    /\ l_pc = "done" /\ l_ord = "ok" /\ l_queries = 2
    /\ \A r \in Reqs : pc[r] = "responded"
    /\ Len(orders) = 2 /\ Len(line_items) >= 3
    /\ \E i, j \in 1..Len(line_items) :
          line_items[i].price # line_items[j].price

\* the request has been answered with an HTTP status outside 200..299
NonSuccessResponse(r) ==
    response[r].status >= 100
    /\ (response[r].status < 200 \/ response[r].status > 299)

(***************************************************************************)
(* C17.  Failed placement yields no identifier: a placement that failed    *)
(* (an order without items, a failed price lookup, a failed store write)   *)
(* has been answered with a non-2xx status and no order identifier; an     *)
(* answer that carries an identifier follows the transaction's commit.     *)
(***************************************************************************)
C17_FailedPlacementNoIdentifier ==
    \A r \in Reqs :
        /\ pc[r] = "panicked" =>
              response[r].body = None /\ NonSuccessResponse(r)
        /\ (/\ pc[r] \in Ended \ {"off"}
            /\ NItems(r, "barista") = 0
            /\ NItems(r, "kitchen") = 0) =>
              response[r].body = None /\ NonSuccessResponse(r)
        /\ response[r].body # None => txn[r] = "committed"

(***************************************************************************)
(* C18.  Non-idempotent placement: when the same place-order request was   *)
(* submitted twice and both submissions were answered, there are two       *)
(* persisted orders with different identifiers, each answer carries its    *)
(* own, each order has one line item per item of the request, and no line  *)
(* item belongs to both.                                                   *)
(***************************************************************************)
C18_NonIdempotent ==
    (/\ input[1] = input[2]
     /\ \A r \in Reqs : pc[r] = "responded")
    => /\ result[1] # result[2]
       /\ response[1].body # response[2].body
       /\ Len(orders) = 2
       /\ \A r \in Reqs :
             /\ HeaderVisible(r)
             /\ response[r] = [status |-> 200, body |-> result[r]]
             /\ Len(LinesVisible(r))
                   = NItems(r, "barista") + NItems(r, "kitchen")
       /\ Len(line_items) = Len(LinesVisible(1)) + Len(LinesVisible(2))
       /\ \A i, j \in 1..Len(line_items) :
             i # j => line_items[i].id # line_items[j].id

\* the same request of one barista and one kitchen item, answered twice:
\* two orders of two line items each
C18_Witness ==
    /\ input[1] = input[2]
    /\ \A r \in Reqs : pc[r] = "responded"
    /\ NItems(1, "barista") = 1 /\ NItems(1, "kitchen") = 1
    /\ Len(orders) = 2 /\ orders[1].id # orders[2].id
    /\ Len(line_items) = 4
    /\ Len(LinesVisible(1)) = 2 /\ Len(LinesVisible(2)) = 2

(***************************************************************************)
(* C19.  Header defaults: every persisted order header has status 1 and    *)
(* is the header of one request; its order source is that request's, 0     *)
(* when the request has none, and its loyalty member is that request's,    *)
(* the nil identifier (0) when the request has none.                       *)
(***************************************************************************)
C19_HeaderDefaults ==
    /\ \A i \in 1..Len(orders) :
          /\ orders[i].order_status = 1
          /\ \E r \in Reqs :
                /\ result[r] = Some(orders[i].id)
                /\ orders[i].order_source =
                      IF input[r].order_source = None THEN 0
                      ELSE input[r].order_source[1]
                /\ orders[i].loyalty_member_id =
                      IF input[r].loyalty_member_id = None THEN 0
                      ELSE input[r].loyalty_member_id[1]
    /\ \A r \in Reqs : result[r] # None => HeaderVisible(r)

\* a request that gave an order source and no loyalty member has its header
\* persisted: the given source, the nil member, status 1
C19_Witness ==
    \E r \in Reqs :
        /\ HeaderVisible(r)
        /\ input[r].order_source = Some(3)
        /\ input[r].loyalty_member_id = None
        /\ \E i \in 1..Len(orders) :
              /\ orders[i].id = result[r][1]
              /\ orders[i].order_source = 3
              /\ orders[i].loyalty_member_id = 0
              /\ orders[i].order_status = 1

\* the events the sidecar published for the publish requests of ping k
PublishedBy(k) == SelectSeq(topic_events, LAMBDA e : e.by = k)

(***************************************************************************)
(* C20.  Ping/pong relay: a POST /pinged whose body deserializes to a      *)
(* Pinged of id x is answered 200 only after exactly one Ponged event of   *)
(* id x was published to topic "ponged" of pubsub "pubsub"; a POST /pinged *)
(* whose body does not deserialize is answered 400 and nothing is          *)
(* published for it.                                                       *)
(***************************************************************************)
C20_PingPongRelay ==
    \A k \in PingReqs :
        LET res == try_from(p_body[k])
            mine == PublishedBy(k)
        IN  IF res.ok
            THEN /\ Len(mine) <= 1
                 /\ p_response[k].status = 200 =>
                       /\ Len(mine) = 1
                       /\ mine[1].pubsub = "pubsub"
                       /\ mine[1].topic = "ponged"
                       /\ mine[1].data = [json |-> TRUE, id |-> Some(res.v.id)]
            ELSE /\ mine = <<>>
                 /\ p_out[k] = <<>>
                 /\ p_pc[k] \in {"responded", "trapped"} =>
                       p_response[k].status = 400

(***************************************************************************)
(* C20, as the handler has it.  With the variable dapr_url set: a POST     *)
(* /pinged whose body deserializes to a Pinged of id x is answered 200     *)
(* only after exactly one publish request, a POST to                       *)
(* {dapr_url}/v1.0/publish/pubsub/ponged with body {"id": x}, was sent     *)
(* and resolved, whatever status the sidecar answered with; if the send    *)
(* fails the component traps; a body that does not deserialize is          *)
(* answered 400 and no request is sent for it.  With dapr_url not set,     *)
(* every request is answered 500 and no request is sent.                   *)
(***************************************************************************)
C20_RelaySendsOnce ==
    \A k \in PingReqs :
        LET res == try_from(p_body[k])
            ended == p_pc[k] \in {"responded", "trapped"}
        IN  /\ Len(p_out[k]) <= 1
            /\ Len(PublishedBy(k)) <= Len(p_out[k])
            /\ dapr_url = None =>
                  /\ p_out[k] = <<>>
                  /\ ended => p_response[k].status = 500
            /\ (dapr_url # None /\ ~res.ok) =>
                  /\ p_out[k] = <<>>
                  /\ ended => p_response[k].status = 400
            /\ (dapr_url # None /\ res.ok) =>
                  /\ p_response[k].status = 200 =>
                        /\ p_out[k] =
                              <<[method |-> "POST",
                                 url |-> <<dapr_url[1], "v1.0", "publish",
                                           "pubsub", "ponged">>,
                                 body |-> [json |-> TRUE,
                                           id |-> Some(res.v.id)]]>>
                        /\ p_result[k] # None /\ p_result[k][1].ok
                  /\ p_pc[k] = "responded" => p_response[k].status = 200
                  /\ p_pc[k] = "trapped" =>
                        /\ p_response[k].status = 500
                        /\ ~p_result[k][1].ok

\* one ping of id u1 was answered 200 after its publish request was sent
\* and the sidecar published the event; the other, whose body is no JSON,
\* was answered 400 and sent nothing
C20_Witness ==
    \E k, q \in PingReqs :
        /\ p_body[k].id = Some("u1") /\ p_body[k].json
        /\ p_response[k].status = 200
        /\ Len(p_out[k]) = 1
        /\ Len(PublishedBy(k)) = 1
        /\ PublishedBy(k)[1].data.id = Some("u1")
        /\ ~p_body[q].json
        /\ p_response[q].status = 400
        /\ p_out[q] = <<>>

====
